---- MODULE Spec2Model ----
(***************************************************************************)
(* State-machine model of the arena game server (src/main.go).  The file   *)
(* holds three revisions of the program:                                   *)
(*   variant 1  lines    1-363   WebSocket server, scores points1/points2  *)
(*   variant 2  lines  365-766   UDP server, per-player Points             *)
(*   variant 3  lines  768-1137  UDP server, one-shot capture              *)
(* The revision that runs is fixed at start-up (variable "variant").       *)
(* Time is counted in units of 100 ms.  Coordinates are integers; NaN is   *)
(* the float64 not-a-number a displacement step produces from 0/0.         *)
(***************************************************************************)
EXTENDS Integers, Sequences, FiniteSets, TLC

\* ---------------------------------------------------------------- bounds
MaxConns == 3
\* a run is one of three kinds: WebSocket clients connect concurrently and
\* send actions; clients connect one after another and send updates
\* with actions; or they send a few position updates over a long time
RaceTime == 0
RaceMsgs == 2
RaceActs == 2
ShortTime == 1
ShortMsgs == 2
ShortActs == 1
LongTime == 155
LongMsgs == 2
LongActs == 0
\* a run of the first UDP revision in which a player is displaced while
\* its own updates arrive
StepTime == 0
StepMsgs == 3
StepActs == 1
\* a run of the first UDP revision in which the players change places after
\* the first capture
SwapTime == 105
SwapMsgs == 3
SwapActs == 0
\* a run of the WebSocket revision in which a client leaves after its capture
LeaveTime == 102
LeaveMsgs == 1
LeaveActs == 0
\* a further kind of run observes broadcast ticks while an update arrives
CastTime == 1
CastMsgs == 1
CastCasts == 2
\* sends that fail in one broadcast tick
MaxFail == 1
\* wall-clock reading at start-up
StartTime == 1000
\* resolver periods that may pass while a handler works on one update
HandlerTicks == 1
\* connections that end by a read error during a run
MaxGone == 1
\* the instant of a long run at which clients send again
LateTime == 52

\* ------------------------------------------------------ program constants
TickFast == 1
TickSlow == 10
DwellTime == 50
ScoreTime == 50
Cooldown == 20
Range == 100
Strength == 1000
Steps == 10
SpawnX == 400
SpawnY == 400
Radius == 50
ZeroTime == 0
NaN == -1000000

\* instants (after start-up) at which clients send updates
ArrivalTimes == {0, LateTime}
RaceRun == [msgs |-> RaceMsgs, acts |-> RaceActs, horizon |-> RaceTime,
            overlap |-> TRUE, gone |-> 0, casts |-> 0, variants |-> {1}]
ShortRun == [msgs |-> ShortMsgs, acts |-> ShortActs, horizon |-> ShortTime,
             overlap |-> FALSE, gone |-> 0, casts |-> 0, variants |-> {1, 2, 3}]
LongRun == [msgs |-> LongMsgs, acts |-> LongActs, horizon |-> LongTime,
            overlap |-> FALSE, gone |-> 0, casts |-> 0, variants |-> {1, 2, 3}]
CastRun == [msgs |-> CastMsgs, acts |-> 0, horizon |-> CastTime,
            overlap |-> FALSE, gone |-> 0, casts |-> CastCasts,
            variants |-> {1, 2, 3}]
StepRun == [msgs |-> StepMsgs, acts |-> StepActs, horizon |-> StepTime,
            overlap |-> FALSE, gone |-> 0, casts |-> 0, variants |-> {2}]
SwapRun == [msgs |-> SwapMsgs, acts |-> SwapActs, horizon |-> SwapTime,
            overlap |-> FALSE, gone |-> 0, casts |-> 0, variants |-> {2}]
LeaveRun == [msgs |-> LeaveMsgs, acts |-> LeaveActs, horizon |-> LeaveTime,
             overlap |-> FALSE, gone |-> MaxGone, casts |-> 0, variants |-> {1}]
Scenarios == {RaceRun, ShortRun, LongRun, CastRun, StepRun, SwapRun, LeaveRun}

Variants == {1, 2, 3}
Conns == 1..MaxConns
Ids == 1..MaxConns
Nil == 0

\* Positions a client reports: the centre of the first capture point, a
\* point on its border (distance 50 from the centre) and a point outside
\* every zone, at distance 50 from the spawn position.
Pos(x, y) == [x |-> x, y |-> y]
PosSet == {Pos(300, 200), Pos(300, 250), Pos(400, 450)}
NoPos == Pos(NaN, NaN)
Acts == {"none", "push", "pull"}

capturePointsInit(v) ==
    LET cp(x, y) == [X |-> x, Y |-> y, Radius |-> Radius, IsCaptured |-> FALSE,
                     CapturingPlayer |-> 0, CurrentCapturingPlayer |-> 0,
                     CaptureStart |-> ZeroTime, EnterTime |-> ZeroTime]
    IN IF v = 2 THEN <<cp(300, 200), cp(800, 600), cp(550, 400)>>
       ELSE <<cp(300, 200), cp(800, 600)>>

NewPlayer(id) ==
    [ID |-> id, X |-> SpawnX, Y |-> SpawnY, LastPushTime |-> ZeroTime,
     LastPullTime |-> ZeroTime, Points |-> 0]

\* ------------------------------------------------------- float helpers
IsNaN(v) == v = NaN
FAdd(a, b) == IF IsNaN(a) \/ IsNaN(b) THEN NaN ELSE a + b
Sq(a) == a * a
\* squared Euclidean distance, NaN when a coordinate is NaN
Dist2(x1, y1, x2, y2) ==
    IF IsNaN(x1) \/ IsNaN(y1) \/ IsNaN(x2) \/ IsNaN(y2) THEN NaN
    ELSE Sq(x1 - x2) + Sq(y1 - y2)
\* integer division rounding toward zero
Quot(a, b) == IF a >= 0 THEN a \div b ELSE -((-a) \div b)


\* ------------------------------------------------------------------ state
VARIABLES
    variant,        \* which revision of the program runs
    now,            \* wall clock, 100 ms units
    heap,           \* Player records by reference (the *Player pointers)
    players,        \* the map players: id -> reference
    capturePoints,  \* the slice capturePoints
    points1,        \* global score counters (variants 1 and 3)
    points2,
    hs,             \* inbound handlers: position in the code and locals
    tasks,          \* displacement goroutines started by push / pull
    msgsLeft,       \* inbound updates still to arrive
    actsLeft,       \* of which updates that carry an action
    run,            \* the bounds of this run: updates, actions, length
    fault,          \* "none", "panic" (a handler goroutine died), "crash"
    lastWrite,      \* the latest write to a player record or the map
    occ,            \* per point: ids inside the zone at the latest tick
    sole,           \* per point: current run of ticks with one sole occupant
    own,            \* per point: ownership period and score credited in it
    lastAct,        \* outcome of the latest push / pull that passed cooldown
    clients,        \* the broadcast set: clients (connections) / clientAddrs (ids)
    castsLeft,      \* broadcast ticks still to come
    cast,           \* the latest broadcast tick: who was sent to, who failed
    detected,       \* records whose connection / endpoint was detected as gone
    mutex           \* the sync.Mutex: "free", or the task that holds it

castVars == <<clients, castsLeft, cast, detected>>
vars == <<variant, now, heap, players, capturePoints, points1, points2, hs,
          tasks, msgsLeft, actsLeft, run, fault, lastWrite, occ, sole, own,
          lastAct, clients, castsLeft, cast, detected, mutex>>

Unalloc == [ID |-> 0, X |-> NaN, Y |-> NaN, LastPushTime |-> ZeroTime,
            LastPullTime |-> ZeroTime, Points |-> 0]
NoMsg == [id |-> 0, pos |-> NoPos, act |-> "none"]
Handler(pc) == [pc |-> pc, pid |-> 0, ptr |-> Nil, msg |-> NoMsg, rt |-> ZeroTime,
                ct |-> ZeroTime, ox |-> NaN]
NoSole == [p |-> 0, since |-> ZeroTime, last |-> ZeroTime, cap0 |-> FALSE,
           one |-> ZeroTime]
NoOwn == [owner |-> 0, since |-> ZeroTime, last |-> ZeroTime, credit |-> 0]
NoAct == [seen |-> "none", started |-> FALSE]
NoWrite == [who |-> "none", locked |-> TRUE]
NoCast == [n |-> 0, to |-> {}, sent |-> {}, failed |-> {}, ids |-> {}, torn |-> {}]
NumPoints == Len(capturePoints)

\* WebSocket revision: one handler goroutine per connection.  UDP revisions:
\* the receive loop of main is the only handler.
Handlers == IF variant = 1 THEN Conns ELSE {1}

Init ==
    /\ variant \in Variants
    /\ now = StartTime
    /\ heap = [r \in Conns |-> Unalloc]
    /\ players = [id \in Ids |-> Nil]
    /\ capturePoints = capturePointsInit(variant)
    /\ points1 = 0
    /\ points2 = 0
    /\ hs = [c \in Conns |-> IF variant = 1 THEN Handler("new")
                             ELSE IF c = 1 THEN Handler("idle") ELSE Handler("off")]
    /\ tasks = <<>>
    /\ \E sc \in Scenarios :
          /\ variant \in sc.variants
          /\ msgsLeft = sc.msgs
          /\ actsLeft = sc.acts
          /\ castsLeft = sc.casts
          /\ run = sc
    /\ fault = "none"
    /\ lastWrite = NoWrite
    /\ occ = [i \in 1..Len(capturePointsInit(variant)) |-> {}]
    /\ sole = [i \in 1..Len(capturePointsInit(variant)) |-> NoSole]
    /\ own = [i \in 1..Len(capturePointsInit(variant)) |-> NoOwn]
    /\ lastAct = NoAct
    /\ clients = {}
    /\ cast = NoCast
    /\ detected = {}
    /\ mutex = "free"

Running == fault # "crash"
TickPeriod == IF variant = 3 THEN TickSlow ELSE TickFast
\* clients connect at start-up, before the first update is sent
Starting == now = StartTime /\ msgsLeft = run.msgs
\* a client can disconnect now: at once in a run without resolver ticks,
\* at the late instant in a run with ticks
Leaving == IF run.horizon = 0 THEN TRUE
           ELSE LateTime <= now - StartTime /\ now - StartTime < LateTime + TickPeriod
\* a client event can happen now
Arriving == \E a \in ArrivalTimes : a <= now - StartTime /\ now - StartTime < a + TickPeriod
\* the map players is a function on Ids; Nil marks an id that is not a key
MapPut(m, k, v) == [m EXCEPT ![k] = v]
MapDel(m, k) == [m EXCEPT ![k] = Nil]
Keys(m) == {k \in DOMAIN m : m[k] # Nil}
MapLen(m) == Cardinality(Keys(m))
\* players[id]: the reference, or Nil when the id is not in the map
Lookup(id) == IF id \in Ids THEN players[id] ELSE Nil

\* ------------------------------------------------- connect / registration
\* variant 1, line 71: the id is computed from the map size, without the lock
ConnectAssign(c) ==
    /\ Running /\ variant = 1 /\ Starting
    /\ hs[c].pc = "new"
    /\ c > 1 => hs[c - 1].pc # "new"
    /\ run.overlap \/ \A d \in Conns : hs[d].pc # "assigned"
    /\ hs' = [hs EXCEPT ![c] = [@ EXCEPT !.pc = "assigned",
                                         !.pid = MapLen(players) + 1]]
    /\ UNCHANGED <<variant, now, heap, players, capturePoints, points1, points2,
                   tasks, msgsLeft, actsLeft, run, fault, lastWrite, occ, sole,
                   own, lastAct, mutex>>
    /\ UNCHANGED castVars

\* variant 1, lines 74-88: after the id was sent, the record is put in the map
ConnectInsert(c) ==
    /\ Running /\ variant = 1
    /\ hs[c].pc = "assigned"
    /\ heap' = [heap EXCEPT ![c] = NewPlayer(hs[c].pid)]
    /\ players' = MapPut(players, hs[c].pid, c)
    /\ hs' = [hs EXCEPT ![c] = [@ EXCEPT !.pc = "idle"]]
    /\ clients' = clients \cup {c}
    /\ lastWrite' = [who |-> "connect", locked |-> FALSE]
    /\ UNCHANGED <<variant, now, capturePoints, points1, points2, tasks, msgsLeft,
                   actsLeft, run, fault, occ, sole, own, lastAct, castsLeft, cast,
                   detected, mutex>>

\* variant 1, lines 93-99: a read error (the client left, or the broadcast
\* loop closed the connection) ends the handler and deletes its id
Disconnect(c) ==
    /\ Running /\ variant = 1
    /\ \/ hs[c].pc = "closed"
       \/ /\ hs[c].pc = "idle" /\ Leaving
          /\ Cardinality({d \in Conns : hs[d].pc = "gone"}) < run.gone
    /\ players' = MapDel(players, hs[c].pid)
    /\ clients' = clients \ {c}
    /\ detected' = detected \cup {c}
    /\ hs' = [hs EXCEPT ![c] = [@ EXCEPT !.pc = IF @ = "closed" THEN "ended" ELSE "gone"]]
    /\ lastWrite' = [who |-> "disconnect", locked |-> FALSE]
    /\ UNCHANGED <<variant, now, heap, capturePoints, points1, points2, tasks,
                   msgsLeft, actsLeft, run, fault, occ, sole, own, lastAct,
                   castsLeft, cast, mutex>>

\* variants 2 and 3, handleUDPMessage without an id: registration under the lock
Register ==
    /\ Running /\ variant # 1 /\ Starting
    /\ hs[1].pc = "idle"
    /\ mutex = "free"
    /\ MapLen(players) < MaxConns
    /\ LET id == MapLen(players) + 1 IN
         /\ heap' = [heap EXCEPT ![id] = NewPlayer(id)]
         /\ players' = MapPut(players, id, id)
         /\ clients' = clients \cup {id}
    /\ lastWrite' = [who |-> "register", locked |-> TRUE]
    /\ UNCHANGED <<variant, now, capturePoints, points1, points2, hs, tasks,
                   msgsLeft, actsLeft, run, fault, occ, sole, own, lastAct,
                   castsLeft, cast, detected, mutex>>

\* --------------------------------------------------------- capture resolver
\* isPlayerInZone: distance <= radius, false for a nil player (and for NaN)
isPlayerInZone(ref, cp) ==
    /\ ref # Nil
    /\ LET d2 == Dist2(heap[ref].X, heap[ref].Y, cp.X, cp.Y)
       IN ~IsNaN(d2) /\ d2 <= Sq(cp.Radius)

\* variant 3, lines 1104-1105: distance < radius
StrictlyInZone(ref, cp) ==
    /\ ref # Nil
    /\ LET d2 == Dist2(heap[ref].X, heap[ref].Y, cp.X, cp.Y)
       IN ~IsNaN(d2) /\ d2 < Sq(cp.Radius)

\* ids of the players inside the zone of a point
Occupants(cp) == {k \in Keys(players) : isPlayerInZone(players[k], cp)}
StrictOccupants(cp) == {k \in Keys(players) : StrictlyInZone(players[k], cp)}

\* lines 315-323 / 325-333 (variant 1): the dwell of player id at time t
DwellFixed(cp, id, t) ==
    LET e == IF cp.EnterTime = ZeroTime THEN t ELSE cp.EnterTime
    IN IF t - e >= DwellTime
       THEN [cp EXCEPT !.IsCaptured = TRUE, !.CapturingPlayer = id,
                       !.CaptureStart = t, !.EnterTime = ZeroTime]
       ELSE [cp EXCEPT !.EnterTime = e]

\* variant 1, lines 309-336
CaptureV1(cp, t) ==
    LET player1InZone == isPlayerInZone(Lookup(1), cp)
        player2InZone == isPlayerInZone(Lookup(2), cp)
    IN IF player1InZone /\ player2InZone THEN [cp EXCEPT !.EnterTime = ZeroTime]
       ELSE IF player1InZone THEN DwellFixed(cp, 1, t)
       ELSE IF player2InZone THEN DwellFixed(cp, 2, t)
       ELSE [cp EXCEPT !.EnterTime = ZeroTime]

\* variant 1, lines 339-351: w is the world during the tick, cp the point
\* after its capture step
ScoreV1(w, i, cp, t) ==
    IF cp.IsCaptured /\ cp.CapturingPlayer \in {1, 2} /\ t - cp.CaptureStart >= ScoreTime
    THEN [w EXCEPT !.cps[i] = [cp EXCEPT !.CaptureStart = t],
                   !.p1 = IF cp.CapturingPlayer = 1 THEN @ + 1 ELSE @,
                   !.p2 = IF cp.CapturingPlayer = 2 THEN @ + 1 ELSE @,
                   !.aw[i] = TRUE]
    ELSE [w EXCEPT !.cps[i] = cp]

\* a pass that clears the radius together with the dwell timer when the
\* zone is empty or contested
CaptureV2ClearsZone(cp, t) ==
    LET inside == Occupants(cp)
    IN IF Cardinality(inside) = 1
       THEN LET id == heap[players[CHOOSE k \in inside : TRUE]].ID
                e == IF cp.EnterTime = ZeroTime THEN t ELSE cp.EnterTime
            IN IF t - e >= DwellTime /\ (~cp.IsCaptured \/ cp.CapturingPlayer # id)
               THEN [cp EXCEPT !.CurrentCapturingPlayer = id, !.IsCaptured = TRUE,
                               !.CapturingPlayer = id, !.CaptureStart = t,
                               !.EnterTime = ZeroTime]
               ELSE [cp EXCEPT !.CurrentCapturingPlayer = id, !.EnterTime = e]
       ELSE [cp EXCEPT !.EnterTime = ZeroTime, !.CurrentCapturingPlayer = 0,
                       !.Radius = 0]

\* variant 2, lines 704-737
CaptureV2(cp, t) ==
    LET inside == Occupants(cp)
    IN IF Cardinality(inside) = 1
       THEN LET id == heap[players[CHOOSE k \in inside : TRUE]].ID
                e == IF cp.EnterTime = ZeroTime THEN t ELSE cp.EnterTime
            IN IF t - e >= DwellTime /\ (~cp.IsCaptured \/ cp.CapturingPlayer # id)
               THEN [cp EXCEPT !.CurrentCapturingPlayer = id, !.IsCaptured = TRUE,
                               !.CapturingPlayer = id, !.CaptureStart = t,
                               !.EnterTime = ZeroTime]
               ELSE [cp EXCEPT !.CurrentCapturingPlayer = id, !.EnterTime = e]
       ELSE [cp EXCEPT !.EnterTime = ZeroTime, !.CurrentCapturingPlayer = 0]

\* variant 2, lines 740-753: the owner's record is dereferenced without a check
ScoreV2(w, i, cp, t) ==
    IF cp.IsCaptured /\ t - cp.CaptureStart >= ScoreTime /\ cp.CapturingPlayer # 0
    THEN LET ref == Lookup(cp.CapturingPlayer)
         IN IF ref = Nil THEN [w EXCEPT !.cps[i] = cp, !.bad = TRUE]
            ELSE [w EXCEPT !.cps[i] = [cp EXCEPT !.CaptureStart = t],
                           !.heap[ref].Points = @ + 1,
                           !.aw[i] = TRUE]
    ELSE [w EXCEPT !.cps[i] = cp]

\* a resolver whose branch for a captured point gives the point up
StepV3LosesPoint(w, i, pick, t) ==
    LET cp == w.cps[i]
    IN IF ~cp.IsCaptured
       THEN IF pick = 0 THEN w
            ELSE IF cp.CapturingPlayer = 0
                 THEN [w EXCEPT !.cps[i] = [cp EXCEPT !.CapturingPlayer = pick,
                                                      !.EnterTime = t]]
            ELSE IF cp.CapturingPlayer = pick
                 THEN IF t - cp.EnterTime > DwellTime
                      THEN [w EXCEPT !.cps[i] = [cp EXCEPT !.IsCaptured = TRUE],
                                     !.p1 = IF pick = 1 THEN @ + 1 ELSE @,
                                     !.p2 = IF pick = 1 THEN @ ELSE @ + 1,
                                     !.aw[i] = TRUE]
                      ELSE w
            ELSE [w EXCEPT !.cps[i] = [cp EXCEPT !.CapturingPlayer = pick,
                                                 !.EnterTime = t]]
       ELSE IF cp.CapturingPlayer # 0
            THEN [w EXCEPT !.cps[i] = [cp EXCEPT !.CapturingPlayer = 0,
                                                 !.EnterTime = ZeroTime,
                                                 !.IsCaptured = FALSE]]
            ELSE w

\* variant 3, lines 1102-1132: pick is the first player the map iteration
\* finds inside the zone (0: none)
StepV3(w, i, pick, t) ==
    LET cp == w.cps[i]
    IN IF ~cp.IsCaptured
       THEN IF pick = 0 THEN w
            ELSE IF cp.CapturingPlayer = 0
                 THEN [w EXCEPT !.cps[i] = [cp EXCEPT !.CapturingPlayer = pick,
                                                      !.EnterTime = t]]
            ELSE IF cp.CapturingPlayer = pick
                 THEN IF t - cp.EnterTime > DwellTime
                      THEN [w EXCEPT !.cps[i] = [cp EXCEPT !.IsCaptured = TRUE],
                                     !.p1 = IF pick = 1 THEN @ + 1 ELSE @,
                                     !.p2 = IF pick = 1 THEN @ ELSE @ + 1,
                                     !.aw[i] = TRUE]
                      ELSE w
            ELSE [w EXCEPT !.cps[i] = [cp EXCEPT !.CapturingPlayer = pick,
                                                 !.EnterTime = t]]
       ELSE IF cp.CapturingPlayer # 0
            THEN [w EXCEPT !.cps[i] = [cp EXCEPT !.CapturingPlayer = 0,
                                                 !.EnterTime = ZeroTime]]
            ELSE w

\* one iteration of the loop over capturePoints
StepPoint(w, i, pick, t) ==
    IF variant = 1 THEN ScoreV1(w, i, CaptureV1(w.cps[i], t), t)
    ELSE IF variant = 2 THEN ScoreV2(w, i, CaptureV2(w.cps[i], t), t)
    ELSE StepV3(w, i, pick, t)

RECURSIVE LoopPoints(_, _, _, _)
LoopPoints(w, i, picks, t) ==
    IF i > Len(w.cps) THEN w
    ELSE LoopPoints(StepPoint(w, i, picks[i], t), i + 1, picks, t)

\* the choices the map iteration of variant 3 can make, one per point
Picks ==
    IF variant # 3 THEN {[i \in 1..NumPoints |-> 0]}
    ELSE {f \in [1..NumPoints -> Ids \cup {0}] :
            \A i \in 1..NumPoints :
                LET in == StrictOccupants(capturePoints[i])
                IN IF in # {} THEN f[i] \in in ELSE f[i] = 0}

\* the run of ticks at which one and the same player was the sole occupant
\* (since), within the run of ticks at which the zone had exactly one
\* occupant, whoever it was (one)
NextSole(s, in, cp, t) ==
    IF Cardinality(in) # 1 THEN NoSole
    ELSE LET p == CHOOSE k \in in : TRUE
         IN IF s.p = p THEN [s EXCEPT !.last = t]
            ELSE [p |-> p, since |-> t, last |-> t, cap0 |-> cp.IsCaptured,
                  one |-> IF s.p = 0 THEN t ELSE s.one]

\* the ownership period of a point and the score credited during it
NextOwn(o, cp, cp2, awarded, t) ==
    IF ~cp2.IsCaptured \/ cp2.CapturingPlayer = 0 THEN
        IF o.owner = 0 THEN NoOwn ELSE [o EXCEPT !.last = t]
    ELSE IF ~cp.IsCaptured \/ cp.CapturingPlayer # cp2.CapturingPlayer
         THEN [owner |-> cp2.CapturingPlayer, since |-> t, last |-> t,
               credit |-> IF awarded THEN 1 ELSE 0]
    ELSE [o EXCEPT !.last = t, !.credit = IF awarded THEN @ + 1 ELSE @]

\* checkCapturePoints: one pass of the loop body under the lock, with its sleep
Tick ==
    /\ Running
    /\ mutex = "free"
    /\ now < StartTime + run.horizon
    /\ \A h \in Conns : hs[h].pc \in {"wy", "fire"}
                           => now - hs[h].rt < HandlerTicks * TickPeriod
    /\ LET t == IF variant = 2 THEN now ELSE now + TickPeriod
       IN \E picks \in Picks :
            LET w0 == [cps |-> capturePoints, p1 |-> points1, p2 |-> points2,
                       heap |-> heap, aw |-> [i \in 1..NumPoints |-> FALSE],
                       bad |-> FALSE]
            IN \E w \in {LoopPoints(w0, 1, picks, t)} :
               /\ capturePoints' = w.cps
               /\ points1' = w.p1
               /\ points2' = w.p2
               /\ heap' = w.heap
               /\ fault' = IF w.bad THEN "crash" ELSE fault
               /\ occ' = [i \in 1..NumPoints |-> Occupants(capturePoints[i])]
               /\ sole' = [i \in 1..NumPoints |->
                             NextSole(sole[i], Occupants(capturePoints[i]),
                                      capturePoints[i], t)]
               /\ own' = [i \in 1..NumPoints |->
                            NextOwn(own[i], capturePoints[i], w.cps[i], w.aw[i], t)]
               /\ lastWrite' = IF w.heap # heap
                               THEN [who |-> "resolver", locked |-> TRUE]
                               ELSE lastWrite
    /\ now' = now + TickPeriod
    /\ UNCHANGED <<variant, players, hs, tasks, msgsLeft, actsLeft, run, lastAct,
                   mutex>>
    /\ UNCHANGED castVars

\* ------------------------------------------------------- inbound updates
\* the updates a client can send: an id and either a position or an action.
\* A WebSocket client reports the id it was given; a datagram can name any id.
Msgs == [id : Ids, pos : PosSet, act : {"none"}]
            \cup [id : Ids, pos : {NoPos}, act : {"push", "pull"}]

Idle(h) == [Handler("idle") EXCEPT !.pid = hs[h].pid]

\* the ways a send routine returns: sendGameState has two early returns
\* (lines 538-541 and 544-547), broadcastGameState has none
Outcomes == IF variant = 1 THEN {"sent"} ELSE {"sent", "nomarshal", "noaddr"}

\* the unlock of a send routine is on every return path and leaves the lock
\* held on the early returns only
DeferredAtEndOnly(o) == IF o = "sent" THEN "free" ELSE "handler"

\* lines 142-143 / 529-530: mutex.Lock(); defer mutex.Unlock().  The lock
\* after the routine has returned in way o
Deferred(o) == "free"

\* the handler after the last statement of its update.  Line 494: the UDP
\* handler answers every update with sendGameState; lines 128 / 135: the
\* WebSocket handler calls broadcastGameState after a push / pull that passed
\* the cooldown test.  Both take the lock: the handler waits while it is held
Returned(h, performed) ==
    IF (variant # 1 \/ performed) /\ mutex # "free"
    THEN [Idle(h) EXCEPT !.pc = "reply"]
    ELSE Idle(h)

\* the send routine of a handler that returned with the lock free: it locks,
\* sends (the sends of broadcastGameState succeed) and returns
SendReply(h, performed) ==
    \E o \in Outcomes :
        mutex' = IF mutex = "free" /\ hs'[h].pc = "idle"
                    /\ (variant # 1 \/ performed)
                 THEN Deferred(o)
                 ELSE mutex

\* handleAction, lines 124 / 131: the cooldown test of action act at time t
CooldownOver(rec, act, t) ==
    IF act = "push" THEN t - rec.LastPushTime > Cooldown
    ELSE t - rec.LastPullTime > Cooldown

\* a nil *Player is dereferenced: net/http recovers the panic of a WebSocket
\* handler goroutine (the handler is gone, its player stays in the map); in
\* the UDP revisions the panic is in main and ends the process
Panic(h) ==
    /\ fault' = IF variant = 1 THEN "panic" ELSE "crash"
    /\ hs' = [hs EXCEPT ![h] = [@ EXCEPT !.pc = "panicked"]]
    /\ UNCHANGED <<heap, lastWrite>>

\* lines 102-106 / 477-481: the update is read, the player looked up and the
\* first field applied
Recv(h, m) ==
    /\ msgsLeft > 0
    /\ hs[h].pc = "idle"
    /\ h \in Handlers
    /\ Running /\ Arriving
    /\ variant = 1 => m.id = hs[h].pid
    /\ IF m.act = "none" THEN msgsLeft > actsLeft ELSE actsLeft > 0
    /\ msgsLeft' = msgsLeft - 1
    /\ actsLeft' = IF m.act # "none" THEN actsLeft - 1 ELSE actsLeft
    /\ LET ptr == Lookup(m.id)
       IN IF m.pos = NoPos /\ m.act = "none"
          THEN /\ hs' = [hs EXCEPT ![h] = Returned(h, FALSE)]
               /\ UNCHANGED <<heap, fault, lastWrite>>
          ELSE IF ptr = Nil THEN Panic(h)
          ELSE IF m.pos # NoPos
          THEN /\ heap' = [heap EXCEPT ![ptr].X = m.pos.x]
               /\ hs' = [hs EXCEPT ![h] = [@ EXCEPT !.pc = "wy", !.ptr = ptr,
                                                    !.msg = m, !.rt = now,
                                                    !.ox = heap[ptr].X]]
               /\ lastWrite' = [who |-> "handler", locked |-> FALSE]
               /\ UNCHANGED fault
          ELSE /\ hs' = [hs EXCEPT ![h] =
                            IF CooldownOver(heap[ptr], m.act, now)
                            THEN [@ EXCEPT !.pc = "fire", !.ptr = ptr, !.msg = m,
                                           !.rt = now, !.ct = now]
                            ELSE Returned(h, FALSE)]
               /\ UNCHANGED <<heap, fault, lastWrite>>
    /\ SendReply(h, FALSE)
    /\ UNCHANGED <<variant, now, players, capturePoints, points1, points2, tasks,
                   run, occ, sole, own, lastAct>>
    /\ UNCHANGED castVars

\* lines 108-110 / 483-485: player.Y = y; then, for an update that carries an
\* action, handleAction lines 119-124: time.Now() and the cooldown test
WriteY(h) ==
    /\ Running
    /\ hs[h].pc = "wy"
    /\ heap' = [heap EXCEPT ![hs[h].ptr].Y = hs[h].msg.pos.y]
    /\ hs' = [hs EXCEPT ![h] =
                 IF hs[h].msg.act # "none"
                    /\ CooldownOver(heap[hs[h].ptr], hs[h].msg.act, now)
                 THEN [@ EXCEPT !.pc = "fire", !.ct = now]
                 ELSE Returned(h, FALSE)]
    /\ SendReply(h, FALSE)
    /\ lastWrite' = [who |-> "handler", locked |-> FALSE]
    /\ UNCHANGED <<variant, now, players, capturePoints, points1, points2, tasks,
                   msgsLeft, actsLeft, run, fault, occ, sole, own, lastAct>>
    /\ UNCHANGED castVars

\* ------------------------------------------------------------ push / pull
\* applyPush / applyPull, lines 167-175: the other players and their distance
Others(actor) == {r \in {players[k] : k \in Keys(players)} : heap[r].ID # heap[actor].ID}
DistTo(actor, r) == Dist2(heap[actor].X, heap[actor].Y, heap[r].X, heap[r].Y)
\* a scan that keeps the player with the greatest distance
ClosestIsFarthest(actor) ==
    {r \in Others(actor) :
        /\ ~IsNaN(DistTo(actor, r))
        /\ \A q \in Others(actor) :
              IsNaN(DistTo(actor, q)) \/ DistTo(actor, r) >= DistTo(actor, q)}

\* the players the scan can end with: a minimum of the distance (a NaN
\* distance never compares smaller)
Closest(actor) ==
    {r \in Others(actor) :
        /\ ~IsNaN(DistTo(actor, r))
        /\ \A q \in Others(actor) :
              IsNaN(DistTo(actor, q)) \/ DistTo(actor, r) <= DistTo(actor, q)}

\* the range test with the displacement strength in place of the range
InRangeWrongConstant(d2) == d2 < Sq(Strength)

\* line 177: closestDistance < 100
InRange(d2) == d2 < Sq(Range)

\* lines 179-204: the increment of one step along one axis; d is the
\* difference of the coordinates, d2 the squared distance.  The code divides
\* the normalised difference by the distance again; at distance 0 the
\* difference is left unnormalised and 0/0 is NaN.
StepInc(d, d2) ==
    IF d2 = 0 THEN NaN ELSE Quot(d * Strength, d2 * Steps)

\* the displacement goroutine with a loop that runs once more (i <= steps)
NewTaskOneMore(actor, target, kind, t) ==
    LET sgn == IF kind = "push" THEN 1 ELSE -1
        d2 == DistTo(actor, target)
    IN [target |-> target,
        ix |-> StepInc(sgn * (heap[target].X - heap[actor].X), d2),
        iy |-> StepInc(sgn * (heap[target].Y - heap[actor].Y), d2),
        left |-> Steps + 1, actor |-> actor, kind |-> kind, at |-> t, d2 |-> d2]

\* lines 192-209: the goroutine started by applyPush / applyPull, with the
\* increments of its steps and the passes of its loop still to run
NewTask(actor, target, kind, t) ==
    LET sgn == IF kind = "push" THEN 1 ELSE -1
        d2 == DistTo(actor, target)
    IN [target |-> target,
        ix |-> StepInc(sgn * (heap[target].X - heap[actor].X), d2),
        iy |-> StepInc(sgn * (heap[target].Y - heap[actor].Y), d2),
        left |-> Steps, actor |-> actor, kind |-> kind, at |-> t, d2 |-> d2]

\* handleAction lines 125-127 with applyPush / applyPull: the cooldown
\* timestamp is written and the displacement goroutine started
Fire(h) ==
    /\ Running
    /\ hs[h].pc = "fire"
    /\ LET a == hs[h].ptr
           kind == hs[h].msg.act
       IN /\ heap' = IF kind = "push"
                     THEN [heap EXCEPT ![a].LastPushTime = hs[h].ct]
                     ELSE [heap EXCEPT ![a].LastPullTime = hs[h].ct]
          /\ IF Closest(a) = {}
             THEN /\ tasks' = tasks
                  /\ lastAct' = [seen |-> "alone", started |-> FALSE]
             ELSE \E r \in Closest(a) :
                    /\ tasks' = IF InRange(DistTo(a, r))
                                THEN Append(tasks, NewTask(a, r, kind, hs[h].ct))
                                ELSE tasks
                    /\ lastAct' = [seen |-> IF DistTo(a, r) > Sq(Range) THEN "far"
                                             ELSE "near",
                                   started |-> InRange(DistTo(a, r))]
    /\ hs' = [hs EXCEPT ![h] = Returned(h, TRUE)]
    /\ SendReply(h, TRUE)
    /\ lastWrite' = [who |-> "handler", locked |-> FALSE]
    /\ UNCHANGED <<variant, now, players, capturePoints, points1, points2,
                   msgsLeft, actsLeft, run, fault, occ, sole, own>>
    /\ UNCHANGED castVars

\* lines 196-208: one step of a displacement goroutine, under the lock
DispStep(i) ==
    /\ Running
    /\ mutex = "free"
    /\ i \in DOMAIN tasks
    /\ tasks[i].left > 0
    /\ heap' = [heap EXCEPT ![tasks[i].target].X = FAdd(@, tasks[i].ix),
                            ![tasks[i].target].Y = FAdd(@, tasks[i].iy)]
    /\ tasks' = [tasks EXCEPT ![i].left = @ - 1]
    /\ lastWrite' = [who |-> "displacement", locked |-> TRUE]
    /\ UNCHANGED <<variant, now, players, capturePoints, points1, points2, hs,
                   msgsLeft, actsLeft, run, fault, occ, sole, own, lastAct, mutex>>
    /\ UNCHANGED castVars

\* lines 203-204 against line 109 (UDP: 592-593 against 484): the step holds
\* the mutex, the inbound handler does not.  One outcome of the data race:
\* the step reads the position, handler h writes y, the step writes its sums
\* back, and the y of the update is lost
DispStepRace(i, h) ==
    /\ Running
    /\ mutex = "free"
    /\ i \in DOMAIN tasks
    /\ tasks[i].left > 0
    /\ h \in Handlers
    /\ hs[h].pc = "wy"
    /\ hs[h].ptr = tasks[i].target
    /\ heap' = [heap EXCEPT ![tasks[i].target].X = FAdd(@, tasks[i].ix),
                            ![tasks[i].target].Y = FAdd(@, tasks[i].iy)]
    /\ tasks' = [tasks EXCEPT ![i].left = @ - 1]
    /\ hs' = [hs EXCEPT ![h] =
                 IF hs[h].msg.act # "none"
                    /\ CooldownOver(heap[hs[h].ptr], hs[h].msg.act, now)
                 THEN [@ EXCEPT !.pc = "fire", !.ct = now]
                 ELSE Returned(h, FALSE)]
    /\ SendReply(h, FALSE)
    /\ lastWrite' = [who |-> "handler", locked |-> FALSE]
    /\ UNCHANGED <<variant, now, players, capturePoints, points1, points2,
                   msgsLeft, actsLeft, run, fault, occ, sole, own, lastAct>>
    /\ UNCHANGED castVars

\* ------------------------------------------------------------- broadcast
\* the endpoints the broadcast loop sends to: the connections in clients
\* (variant 1), the ids of the map players that have an address (UDP)
BroadcastSet == IF variant = 1 THEN clients ELSE Keys(players) \cap clients
\* the sends that fail in one tick; a WebSocket send fails to a connection
\* whose handler waits in ReadJSON
FailSets ==
    {F \in SUBSET BroadcastSet :
        /\ Cardinality(F) <= MaxFail
        /\ variant = 1 => \A c \in F : hs[c].pc = "idle"}
\* lines 283-287: a failed WebSocket send closes and deletes the client;
\* lines 676-680: a failed datagram is only logged
AfterSends(set, F) == IF variant = 1 THEN set \ F ELSE set
\* the record behind an endpoint
RecordOf(e) == IF variant = 1 THEN e ELSE players[e]
\* getPlayersState copies every record of the map; a copy is torn when an
\* inbound update has written its x but not yet its y
Torn(r) ==
    \E h \in Handlers :
        /\ hs[h].pc = "wy" /\ hs[h].ptr = r
        /\ heap[r].X # hs[h].ox
        /\ heap[r].Y # hs[h].msg.pos.y

\* the send routine of a handler that had to wait for the lock
Reply(h) ==
    /\ Running
    /\ h \in Handlers
    /\ hs[h].pc = "reply"
    /\ mutex = "free"
    /\ hs' = [hs EXCEPT ![h] = Idle(h)]
    /\ \E o \in Outcomes : mutex' = Deferred(o)
    /\ UNCHANGED <<variant, now, heap, players, capturePoints, points1, points2,
                   tasks, msgsLeft, actsLeft, run, fault, lastWrite, occ, sole, own,
                   lastAct>>
    /\ UNCHANGED castVars

\* gameLoop, lines 272-279 / 657-662: the lock is taken and the snapshot copied
BroadcastLock ==
    /\ Running
    /\ castsLeft > 0
    /\ mutex = "free"
    /\ mutex' = "gameLoop"
    /\ cast' = [n |-> cast.n + 1, to |-> {}, sent |-> {}, failed |-> {},
                ids |-> {players[k] : k \in Keys(players)},
                torn |-> {r \in {players[k] : k \in Keys(players)} : Torn(r)}]
    /\ UNCHANGED <<variant, now, heap, players, capturePoints, points1, points2,
                   hs, tasks, msgsLeft, actsLeft, run, fault, lastWrite, occ, sole,
                   own, lastAct, clients, castsLeft, detected>>

\* gameLoop, lines 281-290 / 665-684: the sends of one pass and the unlock
Broadcast ==
    /\ Running
    /\ castsLeft > 0
    /\ mutex = "gameLoop"
    /\ mutex' = "free"
    /\ castsLeft' = castsLeft - 1
    /\ \E F \in FailSets :
          /\ clients' = AfterSends(clients, F)
          /\ hs' = [c \in Conns |->
                       IF variant = 1 /\ c \in F THEN [hs[c] EXCEPT !.pc = "closed"]
                       ELSE hs[c]]
          /\ detected' = detected \cup {RecordOf(e) : e \in F}
          /\ cast' = [cast EXCEPT !.to = BroadcastSet, !.sent = BroadcastSet,
                                   !.failed = F]
    /\ UNCHANGED <<variant, now, heap, players, capturePoints, points1, points2,
                   tasks, msgsLeft, actsLeft, run, fault, lastWrite, occ, sole, own,
                   lastAct>>

Next ==
    \/ \E c \in Conns : ConnectAssign(c)
    \/ \E c \in Conns : ConnectInsert(c)
    \/ \E c \in Conns : Disconnect(c)
    \/ Register
    \/ \E h \in Conns, m \in Msgs : Recv(h, m)
    \/ \E h \in Conns : WriteY(h)
    \/ \E h \in Conns : Fire(h)
    \/ \E i \in DOMAIN tasks : DispStep(i)
    \/ \E i \in DOMAIN tasks, h \in Conns : DispStepRace(i, h)
    \/ Tick
    \/ \E h \in Conns : Reply(h)
    \/ BroadcastLock
    \/ Broadcast

Spec == Init /\ [][Next]_vars

\* ------------------------------------------------------------------ claims
CitedV1V2 == variant \in {1, 2}
Point(i) == capturePoints[i]

\* C1: a player who is the only one inside a zone at every resolver tick for
\* at least 5 seconds, the point not being captured at the start, has the
\* point captured in his name, whatever his id (revisions 1 and 2).
C1_SoleOccupantCaptures ==
    CitedV1V2 =>
        \A i \in 1..NumPoints :
            (sole[i].p # 0 /\ ~sole[i].cap0 /\ sole[i].last - sole[i].since >= DwellTime)
                => (Point(i).IsCaptured /\ Point(i).CapturingPlayer = sole[i].p)

\* C2: a resolver tick that finds two or more players inside a zone leaves
\* the dwell timer zero and does not change is_captured or capturing_player.
C2_ContestedNeverCaptures ==
    [][now' # now =>
        \A i \in 1..NumPoints :
            Cardinality(occ'[i]) >= 2 =>
                /\ capturePoints'[i].EnterTime = ZeroTime
                /\ capturePoints'[i].IsCaptured = capturePoints[i].IsCaptured
                /\ capturePoints'[i].CapturingPlayer = capturePoints[i].CapturingPlayer]_vars

\* C3: the score credited from a point to its unchanged owner is floor(t/5)
\* after t seconds of ownership (revisions 1 and 2).
C3_ScoreIsFloor ==
    CitedV1V2 =>
        \A i \in 1..NumPoints :
            own[i].owner # 0 =>
                own[i].credit = (own[i].last - own[i].since) \div ScoreTime

\* the cooldown timestamp of action act in a player record
LastTime(rec, act) == IF act = "push" THEN rec.LastPushTime ELSE rec.LastPullTime

\* C4: when a push (pull) of a player was carried out less than 2 seconds
\* before a second push (pull) of the same player is invoked, the second one
\* starts no displacement task and leaves the cooldown timestamp unchanged.
C4_CooldownBlocksSecond ==
    [][\A h \in Conns :
          (/\ hs[h].pc = "fire" /\ hs'[h].pc # "fire"
           /\ hs[h].ct - LastTime(heap[hs[h].ptr], hs[h].msg.act) < Cooldown)
              => /\ tasks' = tasks
                 /\ LastTime(heap'[hs[h].ptr], hs[h].msg.act)
                       = LastTime(heap[hs[h].ptr], hs[h].msg.act)]_vars

\* the nearest other player of the actor is more than 100 units away
NearestIsFar(a) ==
    /\ Closest(a) # {}
    /\ \A r \in Closest(a) : DistTo(a, r) > Sq(Range)
SamePositions(h1, h2) ==
    \A r \in Conns : h1[r].X = h2[r].X /\ h1[r].Y = h2[r].Y

\* C5: a push or pull invoked while the nearest other player is more than
\* 100 units away starts no displacement task and changes no position.
C5_FarActionMovesNobody ==
    [][\A h \in Conns :
          (hs[h].pc = "fire" /\ hs'[h].pc # "fire" /\ NearestIsFar(hs[h].ptr))
              => (tasks' = tasks /\ SamePositions(heap, heap'))]_vars
C5_Witness ==
    lastAct.seen = "far" /\ ~lastAct.started /\ tasks = <<>>

\* C6: a completed displacement has moved its target by 1000 units in total,
\* at whatever distance the target was found (distance 0 left aside).
C6_DisplacementTotal ==
    \A i \in DOMAIN tasks :
        (tasks[i].left = 0 /\ tasks[i].d2 # 0)
            => Sq(Steps * tasks[i].ix) + Sq(Steps * tasks[i].iy) = Sq(Strength)

\* C7: every write to a player record or to the player map is made by a
\* task that holds the mutex.
C7_WritesUnderLock == lastWrite.locked

\* C8: after a resolver tick enter_time is non-zero only if exactly one
\* player is inside the zone and that player is not the owner of the
\* captured point (revision 2).
C8_EnterTimeOnlyWhileDwelling ==
    variant = 2 =>
        \A i \in 1..NumPoints :
            Point(i).EnterTime # ZeroTime =>
                \E p \in Ids :
                    /\ occ[i] = {p}
                    /\ ~(Point(i).IsCaptured /\ Point(i).CapturingPlayer = p)

\* C9: is_captured implies capturing_player # 0.
C9_CapturedHasOwner ==
    \A i \in 1..NumPoints : Point(i).IsCaptured => Point(i).CapturingPlayer # 0

\* C10: an update that names an id that is not in the player map changes
\* nothing and brings the server into no error state.
C10_UnknownIdIsNoOp ==
    [][\A h \in Conns, m \in Msgs :
          (Recv(h, m) /\ Lookup(m.id) = Nil)
              => (fault' = fault /\ heap' = heap /\ players' = players
                  /\ capturePoints' = capturePoints /\ hs'[h].pc # "panicked")]_vars

\* C11: registration never overwrites a record that is in the player map: an
\* id that is a key of the map keeps its record until the id is deleted.
C11_IdsAreFresh ==
    [][\A id \in Ids :
          players[id] # Nil => players'[id] \in {players[id], Nil}]_vars

\* C12: in a broadcast tick in which a send fails, the snapshot is still sent
\* to every other endpoint of the broadcast set, and the failing endpoint is
\* not in the broadcast set when the tick ends.
C12_FailedEndpointDropped ==
    [][castsLeft' < castsLeft =>
          /\ cast'.to \ cast'.failed \subseteq cast'.sent
          /\ cast'.failed \cap BroadcastSet' = {}]_vars

\* the records that are in the player map
Stored == {players[k] : k \in Keys(players)}

\* C13: a record whose connection / endpoint was detected as gone is not in
\* the player map any more, or the handler that removes it is about to run.
C13_GonePlayerRemoved ==
    \A r \in detected :
        r \in Stored => (variant = 1 /\ hs[r].pc = "closed")

\* handler h completes the write of its update's y to record r in this step
WritesY(h, r) == hs[h].pc = "wy" /\ hs'[h].pc # "wy" /\ hs[h].ptr = r

\* C14: a displacement step is atomic with respect to the store: it leaves
\* the target at its position before the step plus the increment, and when
\* an inbound update of the target overlaps the step, at a position that the
\* step and the update produce in one order or the other.
C14_StepIsAtomic ==
    [][\A i \in DOMAIN tasks :
          (i \in DOMAIN tasks' /\ tasks'[i].left < tasks[i].left) =>
              LET r == tasks[i].target
              IN IF \E h \in Conns : WritesY(h, r)
                 THEN \E h \in Conns :
                        /\ WritesY(h, r)
                        /\ heap'[r].Y \in {hs[h].msg.pos.y,
                                           FAdd(hs[h].msg.pos.y, tasks[i].iy)}
                 ELSE /\ heap'[r].X = FAdd(heap[r].X, tasks[i].ix)
                      /\ heap'[r].Y = FAdd(heap[r].Y, tasks[i].iy)]_vars

\* C15: no snapshot of the broadcast loop shows a player with the x of one
\* inbound update and the y of another position.
C15_SnapshotPairsConsistent == cast.torn = {}

\* C16: every displacement task starts with ten steps to run, each of its
\* steps uses up exactly one of them, it never makes an eleventh, and while
\* the server process runs a task with steps left can always make its next
\* step, at once or as soon as the broadcast loop releases the mutex; so
\* under fair scheduling it makes its ten steps and ends.
C16_TenStepsThenStops ==
    /\ [](\A i \in DOMAIN tasks :
            /\ tasks[i].left \in 0..Steps
            /\ (Running /\ tasks[i].left > 0) =>
                   \/ ENABLED DispStep(i)
                   \/ mutex = "gameLoop" /\ ENABLED Broadcast)
    /\ [][/\ \A i \in DOMAIN tasks :
               /\ i \in DOMAIN tasks'
               /\ tasks'[i].left \in {tasks[i].left, tasks[i].left - 1}
               /\ [tasks'[i] EXCEPT !.left = 0] = [tasks[i] EXCEPT !.left = 0]
          /\ \A i \in DOMAIN tasks' \ DOMAIN tasks : tasks'[i].left = Steps]_vars

\* a displacement task has made all of its ten steps
C16_Witness == \E i \in DOMAIN tasks : tasks[i].left = 0

\* C17: while the server process runs, the mutex is never held by a task that
\* has left its locked section: the only task that holds the mutex across
\* other tasks' steps is the broadcast loop, its unlock is then its next step
\* and can be taken, and a send routine of an inbound handler has released
\* the mutex on every return path; no step of the holder locks again.
C17_NoDeadlock ==
    /\ [](Running /\ mutex # "free" => mutex = "gameLoop" /\ ENABLED Broadcast)
    /\ [][mutex # "free" => mutex' \in {mutex, "free"}]_vars

\* an inbound handler has finished its update and waits with its reply for
\* the mutex that the broadcast loop holds
C17_Witness ==
    /\ mutex = "gameLoop"
    /\ \E h \in Handlers : hs[h].pc = "reply"

\* C18: when a point passes to player p at a tick, and the zone had exactly
\* one occupant at every tick of the five seconds before, then that occupant
\* was p at every one of these ticks: a new sole occupant does not inherit
\* the time of the previous one.
C18_DwellIsOfTheNewOwner ==
    [][\A i \in 1..NumPoints :
          LET cp == capturePoints[i]
              cp2 == capturePoints'[i]
          IN (/\ CitedV1V2
              /\ cp2.IsCaptured /\ cp2.CapturingPlayer # 0
              /\ ~cp.IsCaptured \/ cp.CapturingPlayer # cp2.CapturingPlayer
              /\ sole'[i].p # 0
              /\ sole'[i].last - sole'[i].one >= DwellTime)
             => /\ sole'[i].p = cp2.CapturingPlayer
                /\ sole'[i].last - sole'[i].since >= DwellTime]_vars

\* C19: at a tick at which the owner of a captured point is the sole occupant
\* of its zone and stays the owner, capture_start changes only if the tick
\* awards a point to the owner.
C19_OwnerNeverRecaptures ==
    [][\A i \in 1..NumPoints :
          LET cp == capturePoints[i]
              cp2 == capturePoints'[i]
          IN (/\ CitedV1V2
              /\ cp.IsCaptured /\ cp.CapturingPlayer # 0
              /\ cp2.IsCaptured /\ cp2.CapturingPlayer = cp.CapturingPlayer
              /\ sole'[i].p = cp.CapturingPlayer
              /\ cp2.CaptureStart # cp.CaptureStart)
             => own'[i].credit = own[i].credit + 1]_vars

\* C20: a captured point with an owner belongs, after every tick, to the
\* player who has by then been the sole occupant of its zone for five
\* seconds; and its ownership changes at a tick only by passing to the sole
\* occupant of that tick, with capture_start set to the time of the tick.
C20_OwnershipFlipsOnlyByDwell ==
    [][\A i \in 1..NumPoints :
          LET cp == capturePoints[i]
              cp2 == capturePoints'[i]
          IN (cp.IsCaptured /\ cp.CapturingPlayer # 0) =>
                /\ (sole'[i].p # 0 /\ sole'[i].last - sole'[i].since >= DwellTime)
                      => cp2.CapturingPlayer = sole'[i].p
                /\ (~cp2.IsCaptured \/ cp2.CapturingPlayer # cp.CapturingPlayer)
                      => /\ cp2.IsCaptured
                         /\ sole'[i].p # 0
                         /\ cp2.CapturingPlayer = sole'[i].p
                         /\ cp2.CaptureStart = sole'[i].last]_vars

\* the players of the store other than the record a
OthersOf(a) == Stored \ {a}

\* C21: a push or pull of actor a changes no position by itself and starts
\* at most one displacement task, on a player other than a that no other
\* player was nearer to a than at the moment of the action (none when a is
\* alone); every step of a task changes the position of its target only.
C21_OnlyNearestMoves ==
    [][/\ \A h \in Conns :
             (hs[h].pc = "fire" /\ hs'[h].pc # "fire") =>
                LET a == hs[h].ptr
                IN /\ SamePositions(heap, heap')
                   /\ Len(tasks') <= Len(tasks) + 1
                   /\ OthersOf(a) = {} => tasks' = tasks
                   /\ Len(tasks') > Len(tasks) =>
                         LET r == tasks'[Len(tasks')].target
                         IN /\ r \in OthersOf(a)
                            /\ \A q \in OthersOf(a) :
                                  \/ IsNaN(DistTo(a, q))
                                  \/ DistTo(a, r) <= DistTo(a, q)
       /\ \A i \in DOMAIN tasks :
             (i \in DOMAIN tasks' /\ tasks'[i].left < tasks[i].left) =>
                \A r \in Conns \ {tasks[i].target} :
                    heap'[r].X = heap[r].X /\ heap'[r].Y = heap[r].Y]_vars

\* among three players a displacement task, started on the player nearest to
\* the actor at a distance that is not zero, has made a step
C21_Witness ==
    /\ MapLen(players) = 3
    /\ \E i \in DOMAIN tasks :
          /\ tasks[i].left < Steps
          /\ tasks[i].d2 > 0
          /\ tasks[i].target # tasks[i].actor

\* C22: the capture points and the score counters (points1, points2, the
\* Points of a player) change only in a pass of the capture resolver, which
\* takes the mutex; no step changes the number of capture points, a centre
\* or a radius.
C22_OnlyResolverChangesPoints ==
    [][/\ (\/ capturePoints' # capturePoints
           \/ points1' # points1
           \/ points2' # points2
           \/ \E r \in Conns : heap'[r].Points # heap[r].Points)
          => (now' = now + TickPeriod /\ mutex = "free" /\ hs' = hs /\ tasks' = tasks
              /\ players' = players /\ clients' = clients)
       /\ Len(capturePoints') = Len(capturePoints)
       /\ \A i \in 1..NumPoints :
             /\ capturePoints'[i].X = capturePoints[i].X
             /\ capturePoints'[i].Y = capturePoints[i].Y
             /\ capturePoints'[i].Radius = capturePoints[i].Radius]_vars

\* a point was captured and scored for, and updates have arrived since the
\* start
C22_Witness ==
    /\ \E i \in 1..NumPoints :
          capturePoints[i].IsCaptured /\ own[i].credit > 0
    /\ msgsLeft = 0

\* C23: every step of a displacement task belongs to a task that was started
\* at a distance other than zero, and leaves its target at a position with
\* two finite coordinates.
C23_StepsAreFinite ==
    [][\A i \in DOMAIN tasks :
          (i \in DOMAIN tasks' /\ tasks'[i].left < tasks[i].left) =>
              /\ tasks[i].d2 # 0
              /\ ~IsNaN(heap'[tasks[i].target].X)
              /\ ~IsNaN(heap'[tasks[i].target].Y)]_vars

\* C24: a step that raises a score counter credits a player that is in the
\* player map: points1 the player with id 1, points2 the player with id 2,
\* the Points of a record a record of the map.
C24_AwardToPresentPlayer ==
    [][CitedV1V2 =>
          /\ points1' > points1 => 1 \in Keys(players)
          /\ points2' > points2 => 2 \in Keys(players)
          /\ \A r \in Conns : heap'[r].Points > heap[r].Points => r \in Stored]_vars

\* the sum of the Points of the records 1..n
RECURSIVE SumPoints(_, _)
SumPoints(h, n) == IF n = 0 THEN 0 ELSE h[n].Points + SumPoints(h, n - 1)
\* all score counters together
TotalScore(h, a, b) == a + b + SumPoints(h, MaxConns)

\* C25: a captured point stays captured in every step; no step lowers a
\* score counter, and all counters together grow in one step by at most the
\* number of points that are captured after it.
C25_CapturedAndScoresMonotone ==
    [][/\ \A i \in 1..NumPoints :
             capturePoints[i].IsCaptured => capturePoints'[i].IsCaptured
       /\ points1' >= points1
       /\ points2' >= points2
       /\ \A r \in Conns : heap'[r].Points >= heap[r].Points
       /\ TotalScore(heap', points1', points2') - TotalScore(heap, points1, points2)
             <= Cardinality({i \in 1..NumPoints : capturePoints'[i].IsCaptured})]_vars

\* a point has stayed captured over later ticks and a score counter was
\* raised
C25_Witness ==
    /\ \E i \in 1..NumPoints :
          capturePoints[i].IsCaptured /\ own[i].last >= own[i].since + ScoreTime
    /\ TotalScore(heap, points1, points2) > 0

====
